---- MODULE Spec2Model ----
(***************************************************************************)
(* A model of the crypto portfolio optimizer: the data layer of data.py    *)
(* (cache store, provider calls with retry, live prices, historical        *)
(* prices) and the optimization pipeline of optimizer.py.                  *)
(*                                                                         *)
(* Units.  Wall-clock time is counted in hours.  Sleep times are in        *)
(* milliseconds.  Portfolio weights are integers in units of 1e-5, and     *)
(* volatilities and returns are integers in units of 1e-4.                 *)
(*                                                                         *)
(* Python's None is the integer None where a number is expected; optional  *)
(* structured values are records with a flag.                              *)
(***************************************************************************)
EXTENDS Integers, Sequences, FiniteSets, TLC

VARIABLES
    \* api_call_with_retry
    rpc,            \* "idle", "loop" (inside the for loop), "done"
    url,            \* the url argument
    attempt,        \* the loop variable
    responses,      \* the outcome of every requests.get so far
    waits,          \* every time.sleep so far, in ms
    retval,         \* the returned value
    \* cache store
    now,            \* time.time(), in hours
    files,          \* the cache directory: key -> file content or NoFile
    lastSave,       \* history: key -> what save_to_cache last wrote there
    loaded,         \* the last load_from_cache call and what it returned
    \* generate_efficient_frontier_data
    fpc,            \* "idle", "targets" (inside the for loop), "done"
    min_vol,        \* the min-volatility anchor, or its fallback
    min_vol_solved, \* whether the min-volatility anchor was solved
    max_sharpe_vol, \* the max-sharpe anchor, or its fallback
    target_index,   \* the position of the for loop in risk_range
    frontier_points,\* the points collected so far
    frontier,       \* the returned list
    \* get_live_prices
    coinapi_key,    \* whether os.environ holds COINAPI_KEY
    lpc,            \* "idle", "done"
    live_args,      \* the arguments of the call
    live_env,       \* what the providers answered during the call
    live_out,       \* the outcome: raised or returned, the map, the calls
    \* optimize_portfolio and the /api/optimize handler
    opc,            \* "idle", "called", "fetched", "validated", "estimated",
                    \* "solved", "done" (returned), "raised"
    opt_args,       \* the arguments of optimize_portfolio
    hist,           \* hist_prices and missing_symbols
    validation,     \* is_valid, data_issues, cleaned_hist_prices
    weights,        \* the solver's weights, one per column
    allocation,     \* the discrete allocation: whether it was computed, and the cleaned weights it took
    ran,            \* the pipeline steps that have run
    io_log,         \* every cache read, cache write and provider call
    result,         \* the returned OptimizationResult
    response,       \* the handler's HTTP response
    \* sequences of data-layer calls
    ncalls,         \* the number of data-layer calls made so far
    data_call,      \* the last call: its arguments, what the providers
                    \* answered, and the cache files before it
    data_out,       \* what the last call returned, and its log
    \* compute_rolling_metrics
    roll_in,        \* prices_df and risk_free_rate
    roll_out,       \* the returned dict
    \* processes sharing one cache file
    writers,        \* per writer: its position in save_to_cache, the
                    \* document it writes, how much of it is written
    finished,       \* the writers that have finished, in that order
    conc_read       \* what the last load_from_cache of a reader returned

retryVars == <<rpc, url, attempt, responses, waits, retval>>
cacheVars == <<now, files, lastSave, loaded>>
frontierVars == <<fpc, min_vol, min_vol_solved, max_sharpe_vol, target_index,
                  frontier_points, frontier>>
liveVars == <<coinapi_key, lpc, live_args, live_env, live_out>>
optVars == <<opc, opt_args, hist, validation, weights, allocation, ran, io_log,
             result, response>>
dataVars == <<ncalls, data_call, data_out>>
rollVars == <<roll_in, roll_out>>
concVars == <<writers, finished, conc_read>>
vars == <<retryVars, cacheVars, frontierVars, liveVars, optVars, dataVars,
          rollVars, concVars>>

\* Python's None where a number is expected.
None == -1

Max(a, b) == IF a >= b THEN a ELSE b
Min(a, b) == IF a <= b THEN a ELSE b

Last(s) == s[Len(s)]

-----------------------------------------------------------------------------
(* Symbols and the provider symbol table (data.py, symbol_to_id).          *)

KnownSymbols == {"BTC", "ETH", "SOL", "ADA"}

symbol_to_id ==
    [s \in KnownSymbols |->
        CASE s = "BTC" -> "bitcoin"
          [] s = "ETH" -> "ethereum"
          [] s = "SOL" -> "solana"
          [] s = "ADA" -> "cardano"]

\* A ticker that is not in the table.
UnknownSymbol == "XYZ"

CoinIds == {symbol_to_id[s] : s \in KnownSymbols}

-----------------------------------------------------------------------------
(* api_call_with_retry (data.py 100-126).                                  *)

max_retries == 3
BackoffFactorMs == 500

Urls == {"coingecko/simple/price", "coingecko/market_chart", "coinapi/history"}

\* The json bodies a provider may answer with; their content is opaque here.
Payloads == {1, 2}

\* wait_time = backoff_factor * (2 ** attempt)
WaitTimeLinear(a) == BackoffFactorMs * (a + 1)
WaitTimeConstant(a) == BackoffFactorMs
WaitTime(a) == BackoffFactorMs * (2 ^ a)

RetryInit ==
    /\ rpc = "idle"
    /\ url = ""
    /\ attempt = 0
    /\ responses = <<>>
    /\ waits = <<>>
    /\ retval = None

\* What the retry loop leaves alone.
RetryFrame == UNCHANGED <<rollVars, concVars, cacheVars, frontierVars, liveVars, optVars, dataVars>>

ApiCall ==
    /\ RetryFrame
    /\ rpc = "idle"
    /\ \E u \in Urls : url' = u
    /\ rpc' = "loop"
    /\ attempt' = 0
    /\ UNCHANGED <<responses, waits, retval>>

\* requests.get answers 200: raise_for_status passes, the json is returned.
AttemptOk ==
    /\ RetryFrame
    /\ rpc = "loop"
    /\ attempt < max_retries
    /\ \E p \in Payloads : retval' = p
    /\ responses' = Append(responses, "ok")
    /\ rpc' = "done"
    /\ UNCHANGED <<url, attempt, waits>>

\* requests.get answers 429: sleep, then continue with the next attempt.
Attempt429 ==
    /\ RetryFrame
    /\ rpc = "loop"
    /\ attempt < max_retries
    /\ responses' = Append(responses, "429")
    /\ waits' = Append(waits, WaitTime(attempt))
    /\ attempt' = attempt + 1
    /\ UNCHANGED <<rpc, url, retval>>

\* A RequestException: raise_for_status on another error status, a timeout
\* or a connection failure.  The last attempt returns None without sleeping.
AttemptException ==
    /\ RetryFrame
    /\ rpc = "loop"
    /\ attempt < max_retries
    /\ \E kind \in {"http_error", "timeout"} :
          responses' = Append(responses, kind)
    /\ IF attempt = max_retries - 1
         THEN /\ retval' = None
              /\ rpc' = "done"
              /\ UNCHANGED <<attempt, waits>>
         ELSE /\ waits' = Append(waits, WaitTime(attempt))
              /\ attempt' = attempt + 1
              /\ UNCHANGED <<rpc, retval>>
    /\ UNCHANGED url

\* The for loop is exhausted: return None.
RetriesExhausted ==
    /\ RetryFrame
    /\ rpc = "loop"
    /\ attempt = max_retries
    /\ retval' = None
    /\ rpc' = "done"
    /\ UNCHANGED <<url, attempt, responses, waits>>

RetryNext ==
    \/ ApiCall
    \/ AttemptOk
    \/ Attempt429
    \/ AttemptException
    \/ RetriesExhausted

-----------------------------------------------------------------------------
(* Cache store (data.py 69-97).                                            *)

max_age_hours == 24
SecondsPerHour == 3600

\* The clock advances TickHours at a time, up to MaxClock.
TickHours == 6
MaxClock == 30

\* The windows the program uses: 7 for the live-price fallback, the others
\* as lookback_days.
DaysSet == {7, 10, 60}

\* get_cache_path: one file per (coin_id, days).
CacheKeys == CoinIds \X DaysSet

get_cache_path(coin_id, days) == <<coin_id, days>>

\* A file that does not exist.
NoFile == <<None>>

\* A series is the 'prices' list: pairs <<timestamp, price>>; timestamps are
\* in half days, a price may be null (None).
RECURSIVE Flatten(_)
Flatten(prices) ==
    IF prices = <<>> THEN <<>>
    ELSE <<prices[1][1], prices[1][2]>> \o Flatten(Tail(prices))

\* json.dump({'timestamp': t, 'data': data}): the file holds the timestamp,
\* the number of points, then the points.
JsonDump(t, data) == <<t, Len(data.prices)>> \o Flatten(data.prices)

\* A part of a file that no process has written (it reads as NUL bytes).
Hole == None - 3

\* json.load raises on a file that is not one complete document.
JsonWellFormed(f) ==
    /\ \A i \in DOMAIN f : f[i] # Hole
    /\ Len(f) >= 2
    /\ f[1] >= 0
    /\ f[2] >= 0
    /\ Len(f) = 2 + 2 * f[2]

JsonLoad(f) ==
    [timestamp |-> f[1],
     data |-> [prices |-> [i \in 1..f[2] |-> <<f[2 * i + 1], f[2 * i + 2]>>]]]

\* load_from_cache returns None (a miss) or the data.
Miss == [hit |-> FALSE, prices |-> <<>>]
Hit(data) == [hit |-> TRUE, prices |-> data.prices]

\* cache_age > max_age_hours * 3600
ExpiredStrict(cache_age) == cache_age >= max_age_hours * SecondsPerHour
Expired(cache_age) == cache_age > max_age_hours * SecondsPerHour

load_from_cache(fs, t, coin_id, days) ==
    LET f == fs[get_cache_path(coin_id, days)] IN
    IF f = NoFile THEN Miss
    ELSE IF ~JsonWellFormed(f) THEN Miss
    ELSE LET cache_data == JsonLoad(f)
             cache_age == (t - cache_data.timestamp) * SecondsPerHour
         IN IF Expired(cache_age) THEN Miss ELSE Hit(cache_data.data)

save_to_cache_skipped(fs, t, coin_id, days, data) == fs
save_to_cache(fs, t, coin_id, days, data) ==
    [fs EXCEPT ![get_cache_path(coin_id, days)] = JsonDump(t, data)]

\* The series this model stores.
SeriesA == <<<<0, 100>>, <<18, 110>>>>
SeriesB == <<<<2, 100>>, <<3, 300>>>>
SeriesNullLast == <<<<0, 100>>, <<1, None>>>>

NoLoad == [key |-> <<"", 0>>, age |-> None, saved |-> <<>>, hit |-> FALSE,
           prices |-> <<>>]
NoSave == [t |-> None, prices |-> <<>>]

\* The keys the cache specification writes and reads.
CacheSpecKeys == {<<"bitcoin", 7>>, <<"bitcoin", 60>>}
CacheSpecSeries == {SeriesA, <<>>}

CacheInit ==
    /\ now = 0
    /\ files = [k \in CacheKeys |-> NoFile]
    /\ lastSave = [k \in CacheKeys |-> NoSave]
    /\ loaded = NoLoad

\* What the cache operations leave alone.
CacheFrame == UNCHANGED <<rollVars, concVars, retryVars, frontierVars, liveVars, optVars, dataVars>>

Tick ==
    /\ CacheFrame
    /\ now + TickHours <= MaxClock
    /\ now' = now + TickHours
    /\ UNCHANGED <<files, lastSave, loaded>>

SaveToCache ==
    \E k \in CacheSpecKeys, s \in CacheSpecSeries :
        /\ CacheFrame
        /\ files' = save_to_cache(files, now, k[1], k[2], [prices |-> s])
        /\ lastSave' = [lastSave EXCEPT ![k] = [t |-> now, prices |-> s]]
        /\ UNCHANGED <<now, loaded>>

LoadFromCache ==
    \E k \in CacheSpecKeys :
        LET r == load_from_cache(files, now, k[1], k[2]) IN
        /\ CacheFrame
        /\ loaded' = [key |-> k,
                      age |-> IF lastSave[k].t = None THEN None
                              ELSE now - lastSave[k].t,
                      saved |-> lastSave[k].prices,
                      hit |-> r.hit,
                      prices |-> r.prices]
        /\ UNCHANGED <<now, files, lastSave>>

CacheNext ==
    \/ Tick
    \/ SaveToCache
    \/ LoadFromCache

-----------------------------------------------------------------------------
(* generate_efficient_frontier_data (optimizer.py 72-147).  Volatilities   *)
(* and returns are in units of 1e-4.                                       *)

MinVolFallback == 1500
MaxSharpeVolFallback == 4000
MinRiskCap == 1000
MaxRiskFloor == 6000
NumTargets == 15
NumFallbackPoints == 5
MinFrontierPoints == 3

\* The anchor volatilities the solver may report.
MinVols == {500, 3000}
MaxSharpeVols == {8000}

\* min_risk = min(min_vol * 0.9, 0.1); max_risk = max(max_sharpe_vol * 1.5, 0.6)
min_risk(mv) == Min((mv * 9) \div 10, MinRiskCap)
max_risk(msv) == Max((msv * 3) \div 2, MaxRiskFloor)

\* np.linspace(min_risk, max_risk, 15)[i], i from 0
risk_range(mv, msv, i) ==
    min_risk(mv) + (i * (max_risk(msv) - min_risk(mv))) \div (NumTargets - 1)

\* vol = 0.2 + (i * 0.1); ret = 0.05 + (vol * 1.2)
FallbackVol(i) == 2000 + i * 1000
FallbackPoint(i) ==
    [volatility |-> FallbackVol(i), return |-> 500 + (FallbackVol(i) * 12) \div 10]

fallback_points == [j \in 1..NumFallbackPoints |-> FallbackPoint(j - 1)]

\* What efficient_risk(target_risk) followed by portfolio_performance reports
\* when it solves: the risk constraint is binding, and the return is the
\* solver's (the code does not constrain it; the model fixes one per target).
SolvedPoint(target_risk) == [volatility |-> target_risk, return |-> target_risk]

\* efficient_risk raises when the target is below the global minimum
\* volatility; it may also raise for any other solver fault.
CanSolve(target_risk) == min_vol_solved => target_risk >= min_vol

\* if len(frontier_points) < 3: append the five fallback points
WithFallback(points) ==
    IF Len(points) < MinFrontierPoints THEN points \o fallback_points ELSE points

FrontierInit ==
    /\ fpc = "idle"
    /\ min_vol = 0
    /\ min_vol_solved = FALSE
    /\ max_sharpe_vol = 0
    /\ target_index = 0
    /\ frontier_points = <<>>
    /\ frontier = <<>>

\* What the frontier generator leaves alone.
FrontierFrame == UNCHANGED <<rollVars, concVars, retryVars, cacheVars, liveVars, optVars, dataVars>>

\* The two anchor solves, each with its own try/except, then risk_range.
FrontierAnchors ==
    /\ FrontierFrame
    /\ fpc = "idle"
    /\ \/ min_vol' \in MinVols /\ min_vol_solved' = TRUE
       \/ min_vol' = MinVolFallback /\ min_vol_solved' = FALSE
    /\ \/ max_sharpe_vol' \in MaxSharpeVols
       \/ max_sharpe_vol' = MaxSharpeVolFallback
    /\ fpc' = "targets"
    /\ target_index' = 0
    /\ UNCHANGED <<frontier_points, frontier>>

\* A fault outside the inner handlers (constructing EfficientFrontier):
\* the outer except returns the fallback points alone.
FrontierOuterFault ==
    /\ FrontierFrame
    /\ fpc = "idle"
    /\ frontier' = fallback_points
    /\ fpc' = "done"
    /\ UNCHANGED <<min_vol, min_vol_solved, max_sharpe_vol, target_index,
                   frontier_points>>

\* One target solves: its point is appended.
FrontierSolve ==
    /\ FrontierFrame
    /\ fpc = "targets"
    /\ target_index < NumTargets
    /\ CanSolve(risk_range(min_vol, max_sharpe_vol, target_index))
    /\ frontier_points' =
          Append(frontier_points,
                 SolvedPoint(risk_range(min_vol, max_sharpe_vol, target_index)))
    /\ target_index' = target_index + 1
    /\ UNCHANGED <<fpc, min_vol, min_vol_solved, max_sharpe_vol, frontier>>

\* One target raises: it is skipped.
FrontierSkip ==
    /\ FrontierFrame
    /\ fpc = "targets"
    /\ target_index < NumTargets
    /\ target_index' = target_index + 1
    /\ UNCHANGED <<fpc, min_vol, min_vol_solved, max_sharpe_vol,
                   frontier_points, frontier>>

\* The loop is over: the fallback check, then return.
FrontierReturn ==
    /\ FrontierFrame
    /\ fpc = "targets"
    /\ target_index = NumTargets
    /\ frontier' = WithFallback(frontier_points)
    /\ fpc' = "done"
    /\ UNCHANGED <<min_vol, min_vol_solved, max_sharpe_vol, target_index,
                   frontier_points>>

FrontierNext ==
    \/ FrontierAnchors
    \/ FrontierOuterFault
    \/ FrontierSolve
    \/ FrontierSkip
    \/ FrontierReturn

-----------------------------------------------------------------------------
(* Live prices (data.py 148-289).  A price map is a function from the      *)
(* symbols it holds to their prices; {} is the empty function.             *)

EmptyMap == <<>>

Range(seq) == {seq[i] : i \in DOMAIN seq}

\* valid_symbols = [s for s in symbols if s in symbol_to_id]
valid_symbols(symbols) == SelectSeq(symbols, LAMBDA s : s \in KnownSymbols)

\* What api_call_with_retry returned for the batched price request: None
\* (ok = FALSE) or a json object coin id -> 'usd' value; a coin may be absent
\* and a value may be null.
NoData == [ok |-> FALSE, body |-> EmptyMap]

\* extract_price of coingecko: data.get(coin_id, {}).get('usd')
extract_price(data, coin_id) ==
    IF coin_id \in DOMAIN data.body THEN data.body[coin_id] ELSE None

\* _get_prices_from_source('coingecko', symbols) given the provider's answer;
\* `if data:` is false for None and for an empty object.
PricesFromCoingecko(symbols, data) ==
    IF ~data.ok \/ DOMAIN data.body = {} THEN EmptyMap
    ELSE LET got == {s \in Range(symbols) :
                        extract_price(data, symbol_to_id[s]) # None}
         IN [s \in got |-> extract_price(data, symbol_to_id[s])]

\* _get_prices_from_source('coinapi', symbols): one request per symbol;
\* rates[coin_id] is data.get('rate') of its answer, None when the request
\* failed or the answer holds no rate.
PricesFromCoinapi(symbols, rates) ==
    LET got == {s \in Range(symbols) : rates[symbol_to_id[s]] # None}
    IN [s \in got |-> rates[symbol_to_id[s]]]

\* cached_data and 'prices' in cached_data and len(cached_data['prices']) > 0
HasCachedPrices(cached_data) == cached_data.hit /\ Len(cached_data.prices) > 0

\* cached_data['prices'][-1][1]
LatestCached(cached_data) == Last(cached_data.prices)[2]

\* validate_price_data(prices, symbols) of data.py: "valid", "invalid", or
\* "raise" when a comparison meets None (TypeError): prices[s] <= 0 at line
\* 159, latest_cached > 0 at line 176.
validate_live_prices(prices, symbols, fs, t) ==
    IF DOMAIN prices = {} THEN "invalid"
    ELSE IF \E i \in DOMAIN symbols : symbols[i] \notin DOMAIN prices
        THEN "invalid"
    ELSE IF \E i \in DOMAIN symbols : prices[symbols[i]] = None THEN "raise"
    ELSE IF \E i \in DOMAIN symbols : prices[symbols[i]] <= 0 THEN "invalid"
    ELSE IF \E i \in DOMAIN symbols :
               LET cached_data ==
                     load_from_cache(fs, t, symbol_to_id[symbols[i]], 7)
               IN HasCachedPrices(cached_data)
                  /\ LatestCached(cached_data) = None
        THEN "raise"
    ELSE "valid"

\* get_fallback_prices(symbols, days=7)
get_fallback_prices(symbols, fs, t) ==
    LET got == {s \in Range(symbols) :
                   HasCachedPrices(load_from_cache(fs, t, symbol_to_id[s], 7))}
    IN [s \in got |-> LatestCached(load_from_cache(fs, t, symbol_to_id[s], 7))]

\* A merge that lets the cached price win over the provider's.
MergeFallbackOverwrite(prices, fallback_prices, symbols) ==
    [s \in DOMAIN prices \cup (Range(symbols) \cap DOMAIN fallback_prices) |->
        IF s \in DOMAIN fallback_prices /\ s \in Range(symbols)
        THEN fallback_prices[s] ELSE prices[s]]

\* for symbol in valid_symbols: if symbol not in prices and symbol in
\* fallback_prices: prices[symbol] = fallback_prices[symbol]
MergeFallback(prices, fallback_prices, symbols) ==
    [s \in DOMAIN prices \cup (Range(symbols) \cap DOMAIN fallback_prices) |->
        IF s \in DOMAIN prices THEN prices[s] ELSE fallback_prices[s]]

Raised(calls) == [raised |-> TRUE, prices |-> EmptyMap, calls |-> calls]
Returned(prices, calls) == [raised |-> FALSE, prices |-> prices, calls |-> calls]

CoinapiCalls(symbols) == [i \in DOMAIN symbols |-> <<"coinapi", symbol_to_id[symbols[i]]>>]

\* get_live_prices(symbols, use_multiple_sources), given what the providers
\* answer (data from coingecko, rates from coinapi), the COINAPI_KEY setting,
\* the cache files and the time.
get_live_prices(symbols, use_multiple_sources, data, rates, key, fs, t) ==
    LET vs == valid_symbols(symbols) IN
    IF vs = <<>> THEN Returned(EmptyMap, <<>>)
    ELSE
    LET primary == PricesFromCoingecko(vs, data)
        calls1 == <<<<"coingecko", "batch">>>>
        v1 == validate_live_prices(primary, vs, fs, t)
    IN
    IF v1 = "raise" THEN Raised(calls1)
    ELSE
    LET try_alt == (v1 # "valid" \/ DOMAIN primary = {})
                      /\ use_multiple_sources /\ key
        alt_prices == PricesFromCoinapi(vs, rates)
        calls2 == IF try_alt THEN calls1 \o CoinapiCalls(vs) ELSE calls1
        v2 == IF try_alt THEN validate_live_prices(alt_prices, vs, fs, t)
              ELSE "invalid"
    IN
    IF v2 = "raise" THEN Raised(calls2)
    ELSE
    LET prices == IF try_alt /\ v2 = "valid" /\ DOMAIN alt_prices # {}
                    THEN alt_prices ELSE primary
        merged == IF DOMAIN prices = {} \/ Cardinality(DOMAIN prices) < Len(vs)
                    THEN MergeFallback(prices, get_fallback_prices(vs, fs, t), vs)
                    ELSE prices
        v3 == validate_live_prices(merged, vs, fs, t)
    IN
    IF v3 = "raise" THEN Raised(calls2) ELSE Returned(merged, calls2)

\* The inputs and the environment of the live-price specification.
LiveSymbolLists ==
    {<<>>, <<UnknownSymbol>>, <<"BTC">>, <<"BTC", "ETH">>,
     <<"BTC", UnknownSymbol>>, <<"BTC", "BTC">>}
LiveCoins == {"bitcoin", "ethereum"}
LiveValues == {None, 0, 100}

\* Every json object the batched request may answer with.
CoingeckoBodies ==
    UNION {[ids -> LiveValues] : ids \in SUBSET LiveCoins}

CoinapiRates == [CoinIds -> {None}] \cup
    {[c \in CoinIds |-> IF c \in LiveCoins THEN r[c] ELSE None] :
        r \in [LiveCoins -> LiveValues]}

\* The 7-day cache files the live-price specification starts from: none, a
\* fresh one, a fresh one whose latest price is null, a fresh one with no
\* points, an expired one, and a truncated (malformed) one.
LiveCacheFiles(t) ==
    {NoFile,
     JsonDump(t - TickHours, [prices |-> SeriesB]),
     JsonDump(t - TickHours, [prices |-> SeriesNullLast]),
     JsonDump(t - TickHours, [prices |-> <<>>]),
     JsonDump(0, [prices |-> SeriesB]),
     SubSeq(JsonDump(t - TickHours, [prices |-> SeriesB]), 1, 3)}

NoLiveArgs == [symbols |-> <<>>, use_multiple_sources |-> TRUE]
NoLiveEnv == [data |-> NoData, rates |-> [c \in CoinIds |-> None]]

LiveOff ==
    /\ coinapi_key = FALSE
    /\ lpc = "idle"
    /\ live_args = NoLiveArgs
    /\ live_env = NoLiveEnv
    /\ live_out = Returned(EmptyMap, <<>>)

LiveInit ==
    /\ coinapi_key \in BOOLEAN
    /\ lpc = "idle"
    /\ live_args = NoLiveArgs
    /\ live_env = NoLiveEnv
    /\ live_out = Returned(EmptyMap, <<>>)
    /\ now = MaxClock
    /\ \E fb \in LiveCacheFiles(MaxClock), fe \in LiveCacheFiles(MaxClock) :
          files = [k \in CacheKeys |->
                      IF k = <<"bitcoin", 7>> THEN fb
                      ELSE IF k = <<"ethereum", 7>> THEN fe
                      ELSE NoFile]
    /\ lastSave = [k \in CacheKeys |-> NoSave]
    /\ loaded = NoLoad

\* What get_live_prices leaves alone: it reads the cache and writes nothing.
LiveFrame == UNCHANGED <<rollVars, concVars, retryVars, cacheVars, frontierVars, optVars, dataVars, coinapi_key>>

\* One call of get_live_prices.
GetLivePrices ==
    /\ LiveFrame
    /\ lpc = "idle"
    /\ \E symbols \in LiveSymbolLists, use_multiple_sources \in BOOLEAN,
          body \in CoingeckoBodies, answered \in BOOLEAN, rates \in CoinapiRates :
          LET data == IF answered THEN [ok |-> TRUE, body |-> body] ELSE NoData
          IN /\ answered \/ body = EmptyMap
             /\ live_args' = [symbols |-> symbols,
                              use_multiple_sources |-> use_multiple_sources]
             /\ live_env' = [data |-> data, rates |-> rates]
             /\ live_out' = get_live_prices(symbols, use_multiple_sources, data,
                                            rates, coinapi_key, files, now)
    /\ lpc' = "done"

LiveNext == GetLivePrices

-----------------------------------------------------------------------------
(* Historical prices (data.py 292-408).                                    *)

\* Timestamps are in half days: the day a point falls on.
DayOf(ts) == ts \div 2

\* What _get_historical_data returns: None, or {'prices': [...]}.
NoHistory == [ok |-> FALSE, prices |-> <<>>]
History(prices) == [ok |-> TRUE, prices |-> prices]

\* One entry of the log of cache and provider operations.
IoEntry(op, coin_id, days) == <<op, coin_id, days>>

\* if not data and use_multiple_sources: the alternate provider is asked.
UseAlternateAlways(first, use_multiple_sources) == use_multiple_sources
UseAlternate(first, use_multiple_sources) == ~first.ok /\ use_multiple_sources

\* The for loop of get_historical_prices over valid_symbols, from position i,
\* given what each provider answers for each coin.  st holds all_prices (the
\* per-symbol frames), missing_symbols, the cache files and the log.
RECURSIVE FetchLoop(_, _, _, _, _, _, _, _)
FetchLoop(vs, i, days, use_multiple_sources, primary, alternate, t, st) ==
    IF i > Len(vs) THEN st
    ELSE
    LET symbol == vs[i]
        coin_id == symbol_to_id[symbol]
        cached_data == load_from_cache(st.files, t, coin_id, days)
        log1 == Append(st.log, IoEntry("load", coin_id, days))
    IN
    IF cached_data.hit
    THEN FetchLoop(vs, i + 1, days, use_multiple_sources, primary, alternate, t,
            [st EXCEPT !.all_prices =
                          Append(@, [symbol |-> symbol,
                                     prices |-> cached_data.prices]),
                       !.log = log1])
    ELSE
    LET first == primary[coin_id]
        use_alt == UseAlternate(first, use_multiple_sources)
        data == IF use_alt THEN alternate[coin_id] ELSE first
        log2 == Append(log1, IoEntry("coingecko", coin_id, days))
        log3 == IF use_alt THEN Append(log2, IoEntry("coinapi", coin_id, days))
                ELSE log2
    IN
    IF data.ok
    THEN FetchLoop(vs, i + 1, days, use_multiple_sources, primary, alternate, t,
            [st EXCEPT !.all_prices =
                          Append(@, [symbol |-> symbol, prices |-> data.prices]),
                       !.files = save_to_cache(@, t, coin_id, days,
                                               [prices |-> data.prices]),
                       !.log = Append(log3, IoEntry("save", coin_id, days))])
    ELSE FetchLoop(vs, i + 1, days, use_multiple_sources, primary, alternate, t,
            [st EXCEPT !.missing_symbols = Append(@, symbol),
                       !.log = log3])

\* A price matrix (DataFrame): the column symbols, the number of daily rows,
\* and one sequence of cells per column; a missing cell (NaN) is None.
EmptyFrame == [columns |-> <<>>, rows |-> 0, values |-> <<>>]

\* resample('D').last(): the last non-null observation of the day.
DayValue(points, d) ==
    LET obs == {j \in DOMAIN points :
                   DayOf(points[j][1]) = d /\ points[j][2] # None}
    IN IF obs = {} THEN None
       ELSE points[CHOOSE j \in obs :
                      \A k \in obs : points[k][1] <= points[j][1]][2]

\* fillna(method='ffill'): a missing cell takes the last value above it.
RECURSIVE ffill(_)
ffill(col) ==
    IF Len(col) <= 1 THEN col
    ELSE LET head == ffill(SubSeq(col, 1, Len(col) - 1))
         IN Append(head, IF Last(col) # None THEN Last(col) ELSE Last(head))

\* fillna(method='bfill'): a missing cell takes the next value below it.
RECURSIVE bfill(_)
bfill(col) ==
    IF Len(col) <= 1 THEN col
    ELSE LET rest == bfill(Tail(col))
         IN <<IF col[1] # None THEN col[1] ELSE rest[1]>> \o rest

\* pd.concat(all_prices, axis=1), sort_index, resample('D').last(), then
\* forward fill and backward fill.
CombinePrices(all_prices) ==
    LET days == UNION {{DayOf(all_prices[c].prices[j][1]) :
                           j \in DOMAIN all_prices[c].prices} :
                       c \in DOMAIN all_prices}
    IN
    IF days = {} THEN [columns |-> [c \in DOMAIN all_prices |-> all_prices[c].symbol],
                       rows |-> 0,
                       values |-> [c \in DOMAIN all_prices |-> <<>>]]
    ELSE
    LET lo == CHOOSE d \in days : \A e \in days : d <= e
        hi == CHOOSE d \in days : \A e \in days : e <= d
    IN [columns |-> [c \in DOMAIN all_prices |-> all_prices[c].symbol],
        rows |-> hi - lo + 1,
        values |-> [c \in DOMAIN all_prices |->
                      bfill(ffill([r \in 1..(hi - lo + 1) |->
                                     DayValue(all_prices[c].prices, lo + r - 1)]))]]

\* hist_prices.empty
IsEmptyFrame(m) == m.rows = 0 \/ Len(m.columns) = 0

\* get_historical_prices(symbols, days, use_multiple_sources): the matrix,
\* the missing symbols, and the cache files and the log afterwards.
get_historical_prices(symbols, days, use_multiple_sources, primary, alternate, fs, t, log) ==
    LET vs == valid_symbols(symbols) IN
    IF vs = <<>>
    THEN [hist_prices |-> EmptyFrame, missing_symbols |-> <<>>,
          files |-> fs, log |-> log]
    ELSE
    LET st == FetchLoop(vs, 1, days, use_multiple_sources, primary, alternate, t,
                        [all_prices |-> <<>>, missing_symbols |-> <<>>,
                         files |-> fs, log |-> log])
    IN IF st.all_prices = <<>>
       THEN [hist_prices |-> EmptyFrame, missing_symbols |-> vs,
             files |-> st.files, log |-> st.log]
       ELSE [hist_prices |-> CombinePrices(st.all_prices),
             missing_symbols |-> st.missing_symbols,
             files |-> st.files, log |-> st.log]

-----------------------------------------------------------------------------
(* The history validator (optimizer.py 17-69).                             *)

MinPointsCap == 20

Abs(x) == IF x < 0 THEN -x ELSE x

\* min_required = min(lookback_days * 0.8, 20), times 10
MinRequiredTimes10(lookback_days) == Min(lookback_days * 8, MinPointsCap * 10)

\* len(hist_prices) < min_required
InsufficientPoints(m, lookback_days) ==
    m.rows * 10 < MinRequiredTimes10(lookback_days)

Cells(m) == (DOMAIN m.columns) \X (1..m.rows)

\* hist_prices.isna(): the missing cells
NanCells(m) == {cr \in Cells(m) : m.values[cr[1]][cr[2]] = None}

\* missing_pct > pct, with missing_pct = isna().mean().mean() * 100
MissingPctOver(m, pct) ==
    100 * Cardinality(NanCells(m)) > pct * Cardinality(Cells(m))

\* hist_prices.ffill().bfill()
FillGaps(m) ==
    [m EXCEPT !.values = [c \in DOMAIN m.values |-> bfill(ffill(m.values[c]))]]

\* The rows of pct_change().dropna(): every cell and the one above it hold
\* a value.
ReturnRows(m) ==
    {r \in 2..m.rows :
        \A c \in DOMAIN m.columns :
            m.values[c][r] # None /\ m.values[c][r - 1] # None}

\* |daily return| > 0.3, and |daily return| < 0.0001, for positive prices
ExtremeMove(prev, cur) == 10 * Abs(cur - prev) > 3 * prev
StaleMove(prev, cur) == 10000 * Abs(cur - prev) < prev

extreme_days(m) ==
    Cardinality({r \in ReturnRows(m) :
        \E c \in DOMAIN m.columns :
            ExtremeMove(m.values[c][r - 1], m.values[c][r])})

stale_days(m) ==
    Cardinality({r \in ReturnRows(m) :
        \A c \in DOMAIN m.columns :
            StaleMove(m.values[c][r - 1], m.values[c][r])})

IssueIf(cond, issue) == IF cond THEN <<issue>> ELSE <<>>

\* validate_price_data(hist_prices, lookback_days) of optimizer.py.  Whether
\* the z-score count exceeds its limit is scipy's answer (many_outliers).
validate_price_data(m, lookback_days, many_outliers) ==
    IF InsufficientPoints(m, lookback_days)
    THEN [is_valid |-> FALSE,
          data_issues |-> <<"Insufficient data points">>,
          cleaned_data |-> m]
    ELSE
    LET cleaned_data == FillGaps(m)
        stale == stale_days(cleaned_data)
    IN [is_valid |-> ~MissingPctOver(m, 20) /\ ~(stale * 10 > lookback_days * 3),
        data_issues |->
            IssueIf(MissingPctOver(m, 5), "High percentage of missing values")
            \o IssueIf(extreme_days(cleaned_data) > 0, "extreme price movements")
            \o IssueIf(stale * 10 > lookback_days, "stale prices")
            \o IssueIf(many_outliers, "statistical outliers"),
        cleaned_data |-> cleaned_data]

-----------------------------------------------------------------------------
(* optimize_portfolio (optimizer.py 247-465).  Weights are in units of     *)
(* 1e-5; returns and ratios in units of 1e-4.                              *)

DefaultMaxWeight == 60000
MaxWeightCap == 80000
DefaultMinWeight == 5000
MinWeightFloor == 1000
DiversifiedMinWeight == 5000
ReportCutoff == 100
FullWeight == 100000
HighReturn == 10000
HighSharpe == 30000

\* A preference that is not given, and one that is given but is no number
\* (a string); a json null is None.
Absent == None - 1
NonNumeric == None - 2

EmptyPreferences ==
    [kind |-> "dict", max_weight |-> Absent, min_weight |-> Absent,
     target_volatility |-> Absent]

\* if preferences is None or not isinstance(preferences, dict): preferences = {}
NormalizePreferences(preferences) ==
    IF preferences.kind # "dict" THEN EmptyPreferences ELSE preferences

\* preferences.get(key, default)
PrefGet(value, default) == IF value = Absent THEN default ELSE value

\* min(x, 0.8) and max(x, 0.01) raise TypeError when x is None or a string.
PreferencesFault(preferences) ==
    LET q == NormalizePreferences(preferences) IN
    \/ PrefGet(q.max_weight, DefaultMaxWeight) \in {None, NonNumeric}
    \/ PrefGet(q.min_weight, DefaultMinWeight) \in {None, NonNumeric}

\* max_weight = min(preferences.get('max_weight', 0.6), 0.8)
max_weight(preferences) ==
    Min(PrefGet(NormalizePreferences(preferences).max_weight, DefaultMaxWeight),
        MaxWeightCap)

\* min_weight = max(preferences.get('min_weight', 0.05), 0.01), reassigned to
\* 0.05 when len(mu) > 3
min_weight(preferences) ==
    Max(PrefGet(NormalizePreferences(preferences).min_weight, DefaultMinWeight),
        MinWeightFloor)

CleanCutoff(preferences, n) ==
    IF n > 3 THEN DiversifiedMinWeight ELSE min_weight(preferences)

RECURSIVE SumSeq(_)
SumSeq(w) == IF w = <<>> THEN 0 ELSE w[1] + SumSeq(Tail(w))

\* The weight vectors the model lets the solver return.
CandidateWeights ==
    {<<40000, 60000>>, <<50000, 50000>>, <<20000, 80000>>,
     <<33336, 33336, 33328>>, <<60000, 38000, 2000>>, <<50000, 50000, 0>>,
     <<20000, 20000, 60000>>,
     <<25000, 25000, 25000, 25000>>, <<5000, 5000, 40000, 50000>>,
     <<33336, 33336, 28328, 5000>>}

\* What the solver may return for n assets: weights that sum to 1 and meet
\* the constraints added to ef: w <= max_weight, w >= 0 and, for more than
\* 3 assets, w >= 0.05.
SolverSolutions(n, preferences) ==
    {w \in CandidateWeights :
        /\ Len(w) = n
        /\ SumSeq(w) = FullWeight
        /\ \A i \in 1..n :
              /\ w[i] <= max_weight(preferences)
              /\ w[i] >= 0
              /\ n > 3 => w[i] >= DiversifiedMinWeight}

\* ef.clean_weights(cutoff): weights below the cutoff become 0
clean_weights(w, cutoff) == [i \in DOMAIN w |-> IF Abs(w[i]) < cutoff THEN 0 ELSE w[i]]

\* round(v, 4): to the nearest 1e-4, ties to even
Round4(v) ==
    LET q == v \div 10
        r == v % 10
    IN 10 * (IF r < 5 THEN q
             ELSE IF r > 5 THEN q + 1
             ELSE IF q % 2 = 0 THEN q ELSE q + 1)

\* weights = {k: round(v, 4) for k, v in weights.items() if v > 0.001}
ReportedWeights(columns, w) ==
    LET kept == {i \in DOMAIN w : w[i] > ReportCutoff}
    IN [k \in {columns[i] : i \in kept} |->
          Round4(w[CHOOSE i \in kept : columns[i] = k])]

\* (expected_return, volatility, sharpe) the solver may report.
Performances ==
    {[expected_return |-> 2000, volatility |-> 5000, sharpe |-> 4000],
     [expected_return |-> 12000, volatility |-> 9000, sharpe |-> 13333],
     [expected_return |-> 7000, volatility |-> 2000, sharpe |-> 35000]}

NoNote == [kind |-> "", missing |-> <<>>, issues |-> <<>>]

\* The null-weight result with a note.
NullResult(kind, missing) ==
    [null |-> TRUE, optimized_weights |-> EmptyMap, expected_return |-> None,
     volatility |-> None, sharpe_ratio |-> None,
     note |-> [kind |-> kind, missing |-> missing, issues |-> <<>>],
     missing_symbols |-> <<>>,
     keys |-> {"optimized_weights", "expected_return", "volatility",
               "sharpe_ratio", "note"}]

AtLeast2Note == "At least 2 different assets are required for optimization."
NotEnoughNote == "Not enough historical data for optimization."
FailedNote == "Optimization failed"

\* note and data_warning (lines 421-431)
ResultNote(perf, data_issues) ==
    [kind |-> IF perf.expected_return > HighReturn
                THEN "Warning: Expected return is unusually high."
              ELSE IF perf.sharpe > HighSharpe
                THEN "Warning: Sharpe ratio is unusually high."
              ELSE "",
     missing |-> <<>>,
     issues |-> SubSeq(data_issues, 1, Min(2, Len(data_issues)))]

\* The result dict of lines 434-455.
FullResult(columns, w, perf, data_issues, missing) ==
    LET note == ResultNote(perf, data_issues) IN
    [null |-> FALSE,
     optimized_weights |-> ReportedWeights(columns, w),
     expected_return |-> perf.expected_return,
     volatility |-> perf.volatility,
     sharpe_ratio |-> perf.sharpe,
     note |-> note,
     missing_symbols |-> missing,
     keys |-> {"optimized_weights", "expected_return", "volatility",
               "sharpe_ratio", "efficient_frontier", "correlation_matrix",
               "historical_returns", "lookback_days", "rolling_metrics"}
              \cup (IF note # NoNote THEN {"note"} ELSE {})
              \cup (IF missing # <<>> THEN {"missing_symbols"} ELSE {})]

\* symbols = list(holdings.keys())
Symbols(holdings) == [i \in DOMAIN holdings |-> holdings[i][1]]

\* if len(symbols) < 2
TooFewAssetsEmptyOnly(symbols) == Len(symbols) < 1
TooFewAssets(symbols) == Len(symbols) < 2

\* The inputs of the optimizer specification.
Holding(symbols) == [i \in DOMAIN symbols |-> <<symbols[i], 1>>]
HoldingsSet ==
    {Holding(<<>>), Holding(<<"BTC">>), Holding(<<"BTC", "ETH">>),
     Holding(<<"BTC", UnknownSymbol>>), Holding(<<"BTC", "ETH", UnknownSymbol>>),
     Holding(<<"BTC", "ETH", "SOL">>), Holding(<<"BTC", "ETH", "SOL", "ADA">>)}
RiskMethods == {"max_sharpe", "efficient_risk"}
PreferencesSet ==
    {[kind |-> "none", max_weight |-> Absent, min_weight |-> Absent,
      target_volatility |-> Absent],
     [kind |-> "str", max_weight |-> Absent, min_weight |-> Absent,
      target_volatility |-> Absent],
     [kind |-> "dict", max_weight |-> 90000, min_weight |-> 100,
      target_volatility |-> Absent],
     [kind |-> "dict", max_weight |-> 50000, min_weight |-> 30000,
      target_volatility |-> 3000],
     [kind |-> "dict", max_weight |-> NonNumeric, min_weight |-> Absent,
      target_volatility |-> Absent],
     [kind |-> "dict", max_weight |-> Absent, min_weight |-> None,
      target_volatility |-> Absent]}
NoPrices == [given |-> FALSE, map |-> EmptyMap]
PricesSet == {NoPrices, [given |-> TRUE, map |-> [s \in KnownSymbols |-> 100]]}
Lookbacks == {10, 60}

SeriesLong == <<<<0, 100>>, <<58, 120>>>>
PrimaryHistories == {NoHistory, History(SeriesA)}
AlternateHistories == {NoHistory, History(SeriesLong)}

NoArgs ==
    [holdings |-> <<>>, risk_method |-> "", preferences |-> EmptyPreferences,
     prices |-> NoPrices, lookback_days |-> 0, via_handler |-> FALSE]
NoHist == [hist_prices |-> EmptyFrame, missing_symbols |-> <<>>]
NoValidation == [is_valid |-> TRUE, data_issues |-> <<>>, cleaned_data |-> EmptyFrame]
NoResult ==
    [null |-> TRUE, optimized_weights |-> EmptyMap, expected_return |-> None,
     volatility |-> None, sharpe_ratio |-> None, note |-> NoNote,
     missing_symbols |-> <<>>, keys |-> {}]
NoAllocation == [computed |-> FALSE, cleaned_weights |-> <<>>]
NoResponse == [status |-> 0, weights_null |-> TRUE, note |-> ""]

\* The coin ids of the requested symbols the provider table knows.
RequestedCoins(symbols) == {symbol_to_id[s] : s \in Range(valid_symbols(symbols))}

\* What the batched live-price request answers in the handler runs: nothing,
\* or a price for bitcoin and ethereum.
HandlerBodies == {NoData, [ok |-> TRUE, body |-> [c \in LiveCoins |-> 100]]}
TooFewHoldingsNote == "Please provide at least 2 different cryptocurrencies to optimize."
NoPricesNote == "Unable to retrieve current prices. Please try again later."
ErrorNote == "An error occurred during optimization. Please try again with different parameters."

OptOff ==
    /\ opc = "idle"
    /\ opt_args = NoArgs
    /\ hist = NoHist
    /\ validation = NoValidation
    /\ weights = <<>>
    /\ allocation = NoAllocation
    /\ ran = {}
    /\ io_log = <<>>
    /\ result = NoResult
    /\ response = NoResponse

\* The optimizer specification starts with an empty cache directory, or with
\* one fresh entry for bitcoin.
OptInit ==
    /\ OptOff
    /\ now = TickHours
    /\ files \in {[k \in CacheKeys |-> NoFile],
                  [k \in CacheKeys |->
                      IF k = <<"bitcoin", 60>>
                        THEN JsonDump(0, [prices |-> SeriesLong]) ELSE NoFile]}
    /\ lastSave = [k \in CacheKeys |-> NoSave]
    /\ loaded = NoLoad

\* What optimize_portfolio leaves alone.
OptFrame == UNCHANGED <<rollVars, concVars, retryVars, frontierVars, liveVars, dataVars, now, lastSave, loaded>>

\* A direct call of optimize_portfolio.
OptimizeCall ==
    /\ OptFrame
    /\ opc = "idle"
    /\ \E holdings \in HoldingsSet, risk_method \in RiskMethods,
          preferences \in PreferencesSet, prices \in PricesSet,
          lookback_days \in Lookbacks :
          /\ prices.given => risk_method = "max_sharpe"
          /\ opt_args' = [holdings |-> holdings, risk_method |-> risk_method,
                          preferences |-> preferences, prices |-> prices,
                          lookback_days |-> lookback_days,
                          via_handler |-> FALSE]
    /\ opc' = "called"
    /\ UNCHANGED <<files, hist, validation, weights, allocation, ran, io_log,
                   result, response>>

\* len(symbols) < 2: the null-weight result, before anything else.
OptTooFewAssets ==
    /\ OptFrame
    /\ opc = "called"
    /\ TooFewAssets(Symbols(opt_args.holdings))
    /\ result' = NullResult(AtLeast2Note, <<>>)
    /\ opc' = "done"
    /\ UNCHANGED <<files, opt_args, hist, validation, weights, allocation, ran,
                   io_log, response>>

\* Lines 288-289 are outside the try: a TypeError leaves the function.
OptPreferencesFault ==
    /\ OptFrame
    /\ opc = "called"
    /\ ~TooFewAssets(Symbols(opt_args.holdings))
    /\ PreferencesFault(opt_args.preferences)
    /\ opc' = "raised"
    /\ UNCHANGED <<files, opt_args, hist, validation, weights, allocation, ran,
                   io_log, result, response>>

\* hist_prices, missing_symbols = get_historical_prices(symbols, days)
OptFetchHistory ==
    /\ OptFrame
    /\ opc = "called"
    /\ ~TooFewAssets(Symbols(opt_args.holdings))
    /\ ~PreferencesFault(opt_args.preferences)
    /\ \E primary \in [RequestedCoins(Symbols(opt_args.holdings))
                            -> PrimaryHistories],
          alternate \in [RequestedCoins(Symbols(opt_args.holdings))
                            -> AlternateHistories] :
          LET h == get_historical_prices(Symbols(opt_args.holdings),
                                         opt_args.lookback_days, TRUE,
                                         primary, alternate, files, now, io_log)
          IN /\ hist' = [hist_prices |-> h.hist_prices,
                         missing_symbols |-> h.missing_symbols]
             /\ files' = h.files
             /\ io_log' = h.log
    /\ opc' = "fetched"
    /\ ran' = ran \cup {"fetch"}
    /\ UNCHANGED <<opt_args, validation, weights, allocation, result, response>>

NotEnoughData(m) == IsEmptyFrame(m) \/ Len(m.columns) < 2

\* if hist_prices.empty or len(hist_prices.columns) < 2
OptNotEnoughData ==
    /\ OptFrame
    /\ opc = "fetched"
    /\ NotEnoughData(hist.hist_prices)
    /\ result' = NullResult(NotEnoughNote, hist.missing_symbols)
    /\ opc' = "done"
    /\ UNCHANGED <<files, opt_args, hist, validation, weights, allocation, ran,
                   io_log, response>>

\* validate_price_data and generate_historical_returns; is_valid is not
\* looked at afterwards.
OptValidate ==
    /\ OptFrame
    /\ opc = "fetched"
    /\ ~NotEnoughData(hist.hist_prices)
    /\ \E many_outliers \in BOOLEAN :
          /\ many_outliers =>
                Cardinality(ReturnRows(hist.hist_prices)) * 10
                    > opt_args.lookback_days
          /\ many_outliers => ~InsufficientPoints(hist.hist_prices,
                                                  opt_args.lookback_days)
          /\ validation' = validate_price_data(hist.hist_prices,
                                               opt_args.lookback_days,
                                               many_outliers)
    /\ opc' = "validated"
    /\ ran' = ran \cup {"validate"}
    /\ UNCHANGED <<files, opt_args, hist, weights, allocation, io_log, result,
                   response>>

\* The return and risk estimators (lines 320-345) succeed; they need at
\* least one daily return.
OptEstimate ==
    /\ OptFrame
    /\ opc = "validated"
    /\ validation.cleaned_data.rows >= 2
    /\ opc' = "estimated"
    /\ ran' = ran \cup {"estimate"}
    /\ UNCHANGED <<files, opt_args, hist, validation, weights, allocation,
                   io_log, result, response>>

\* An estimator raises: the except of line 457 returns the null result.
OptEstimateFault ==
    /\ OptFrame
    /\ opc = "validated"
    /\ result' = NullResult(FailedNote, <<>>)
    /\ opc' = "done"
    /\ ran' = ran \cup {"estimate"}
    /\ UNCHANGED <<files, opt_args, hist, validation, weights, allocation,
                   io_log, response>>

\* The solver returns weights that meet the constraints.
OptSolve ==
    /\ OptFrame
    /\ opc = "estimated"
    /\ weights' \in SolverSolutions(Len(validation.cleaned_data.columns),
                                    opt_args.preferences)
    /\ opc' = "solved"
    /\ ran' = ran \cup {"solve"}
    /\ UNCHANGED <<files, opt_args, hist, validation, allocation, io_log,
                   result, response>>

\* The solver raises (infeasible constraints, a numerical fault).
OptSolveFault ==
    /\ OptFrame
    /\ opc = "estimated"
    /\ result' = NullResult(FailedNote, <<>>)
    /\ opc' = "done"
    /\ ran' = ran \cup {"solve"}
    /\ UNCHANGED <<files, opt_args, hist, validation, weights, allocation,
                   io_log, response>>

\* Every symbol of cleaned_weights has a price that is not None.
AllPriced(columns, prices) ==
    \A i \in DOMAIN columns :
        columns[i] \in DOMAIN prices.map /\ prices.map[columns[i]] # None

\* Lines 373-455: clean_weights, portfolio_performance, the discrete
\* allocation (a fault in it leaves allocation None), the frontier and the
\* correlation matrix (each with its own handler), the rounding, the note,
\* the rolling metrics, and the result.
OptFinish ==
    /\ OptFrame
    /\ opc = "solved"
    /\ \E perf \in Performances, allocated \in BOOLEAN :
          /\ allocated =>
                /\ opt_args.prices.given
                /\ AllPriced(validation.cleaned_data.columns, opt_args.prices)
          /\ allocation' =
                [computed |-> allocated,
                 cleaned_weights |->
                     clean_weights(weights,
                                   CleanCutoff(opt_args.preferences,
                                               Len(weights)))]
          /\ result' = FullResult(validation.cleaned_data.columns, weights, perf,
                                  validation.data_issues, hist.missing_symbols)
    /\ opc' = "done"
    /\ ran' = ran \cup {"finish"}
    /\ UNCHANGED <<files, opt_args, hist, validation, weights, io_log, response>>

\* A fault in portfolio_performance or compute_rolling_metrics: the except
\* of line 457 returns the null result.
OptFinishFault ==
    /\ OptFrame
    /\ opc = "solved"
    /\ result' = NullResult(FailedNote, <<>>)
    /\ opc' = "done"
    /\ ran' = ran \cup {"finish"}
    /\ UNCHANGED <<files, opt_args, hist, validation, weights, allocation,
                   io_log, response>>

\* POST /api/optimize with fewer than 2 holdings (app.py 37-43): 400.
ApiTooFewHoldings ==
    /\ OptFrame
    /\ opc = "idle"
    /\ \E holdings \in HoldingsSet :
          /\ Len(holdings) < 2
          /\ opt_args' = [NoArgs EXCEPT !.holdings = holdings,
                                        !.via_handler = TRUE]
    /\ response' = [status |-> 400, weights_null |-> TRUE,
                    note |-> TooFewHoldingsNote]
    /\ opc' = "responded"
    /\ UNCHANGED <<files, hist, validation, weights, allocation, ran, io_log,
                   result>>

\* POST /api/optimize with 2 or more holdings (app.py 26-58): the live
\* prices are fetched; a fault or an empty price map answers 500, otherwise
\* optimize_portfolio is called.
ApiOptimize ==
    /\ OptFrame
    /\ opc = "idle"
    /\ \E holdings \in HoldingsSet, preferences \in PreferencesSet,
          lookback_days \in Lookbacks, data \in HandlerBodies :
          LET live == get_live_prices(Symbols(holdings), TRUE, data,
                                      NoLiveEnv.rates, coinapi_key, files, now)
          IN /\ Len(holdings) >= 2
             /\ opt_args' = [holdings |-> holdings, risk_method |-> "max_sharpe",
                             preferences |-> NormalizePreferences(preferences),
                             prices |-> [given |-> TRUE, map |-> live.prices],
                             lookback_days |-> lookback_days,
                             via_handler |-> TRUE]
             /\ IF live.raised
                  THEN /\ response' = [status |-> 500, weights_null |-> TRUE,
                                       note |-> ErrorNote]
                       /\ opc' = "responded"
                ELSE IF DOMAIN live.prices = {}
                  THEN /\ response' = [status |-> 500, weights_null |-> TRUE,
                                       note |-> NoPricesNote]
                       /\ opc' = "responded"
                ELSE /\ response' = response
                     /\ opc' = "called"
    /\ io_log' = Append(io_log, IoEntry("get_live_prices", "", 0))
    /\ UNCHANGED <<files, hist, validation, weights, allocation, ran, result>>

\* The handler answers with the result (200), or with the error of an
\* exception that left optimize_portfolio (500).
ApiRespond ==
    /\ OptFrame
    /\ opc \in {"done", "raised"}
    /\ opt_args.via_handler
    /\ response' = IF opc = "raised"
                     THEN [status |-> 500, weights_null |-> TRUE, note |-> ErrorNote]
                     ELSE [status |-> 200, weights_null |-> result.null,
                           note |-> result.note.kind]
    /\ opc' = "responded"
    /\ UNCHANGED <<files, opt_args, hist, validation, weights, allocation, ran,
                   io_log, result>>

OptNext ==
    \/ ApiTooFewHoldings
    \/ ApiOptimize
    \/ ApiRespond
    \/ OptimizeCall
    \/ OptTooFewAssets
    \/ OptPreferencesFault
    \/ OptFetchHistory
    \/ OptNotEnoughData
    \/ OptValidate
    \/ OptEstimate
    \/ OptEstimateFault
    \/ OptSolve
    \/ OptSolveFault
    \/ OptFinish
    \/ OptFinishFault

-----------------------------------------------------------------------------
(* Sequences of data-layer calls: get_historical_prices and               *)
(* get_live_prices on one cache directory, as time passes.                 *)

MaxCalls == 2

DataSymbolLists ==
    {<<"BTC">>, <<"BTC", "BTC">>, <<"BTC", "ETH">>, <<"BTC", UnknownSymbol>>,
     <<UnknownSymbol>>}
DataDays == 7
DataPrimary == {NoHistory, History(SeriesB), History(<<>>)}
DataAlternate == {NoHistory, History(SeriesA)}

NoDataCall ==
    [op |-> "", symbols |-> <<>>, days |-> 0, use_multiple_sources |-> FALSE,
     primary |-> <<>>, alternate |-> <<>>, body |-> NoData,
     files_before |-> <<>>, at |-> 0]
NoDataOut ==
    [hist_prices |-> EmptyFrame, missing_symbols |-> <<>>, prices |-> EmptyMap,
     raised |-> FALSE, log |-> <<>>]

DataOff ==
    /\ ncalls = 0
    /\ data_call = NoDataCall
    /\ data_out = NoDataOut

\* The cache directory is empty when the process starts.
DataInit ==
    /\ DataOff
    /\ now = 0
    /\ files = [k \in CacheKeys |-> NoFile]
    /\ lastSave = [k \in CacheKeys |-> NoSave]
    /\ loaded = NoLoad

DataCallFrame == UNCHANGED <<rollVars, concVars, retryVars, frontierVars, liveVars, optVars, lastSave, loaded>>

\* Time passes between two calls: long enough for every entry to expire.
EntriesAge ==
    /\ DataCallFrame
    /\ now + max_age_hours + TickHours <= MaxClock
    /\ now' = now + max_age_hours + TickHours
    /\ UNCHANGED <<files, dataVars>>

\* One call of get_historical_prices(symbols, days, use_multiple_sources).
GetHistoricalPrices ==
    /\ DataCallFrame
    /\ ncalls < MaxCalls
    /\ \E symbols \in DataSymbolLists, use_multiple_sources \in BOOLEAN :
       \E primary \in [RequestedCoins(symbols) -> DataPrimary],
          alternate \in [RequestedCoins(symbols) -> DataAlternate] :
          LET h == get_historical_prices(symbols, DataDays, use_multiple_sources,
                                         primary, alternate, files, now, <<>>)
          IN /\ \A c \in RequestedCoins(symbols) :
                   primary[c].ok => alternate[c] = NoHistory
             /\ data_call' = [op |-> "history", symbols |-> symbols,
                              days |-> DataDays,
                              use_multiple_sources |-> use_multiple_sources,
                              primary |-> primary, alternate |-> alternate,
                              body |-> NoData, files_before |-> files,
                              at |-> now]
             /\ data_out' = [hist_prices |-> h.hist_prices,
                             missing_symbols |-> h.missing_symbols,
                             prices |-> EmptyMap, raised |-> FALSE,
                             log |-> h.log]
             /\ files' = h.files
    /\ now' = now
    /\ ncalls' = ncalls + 1

\* One call of get_live_prices(symbols): it reads the cache and writes
\* nothing.
LivePricesLookup ==
    /\ DataCallFrame
    /\ ncalls < MaxCalls
    /\ \E symbols \in DataSymbolLists, body \in HandlerBodies :
          LET live == get_live_prices(symbols, TRUE, body, NoLiveEnv.rates,
                                      coinapi_key, files, now)
          IN /\ data_call' = [op |-> "live", symbols |-> symbols, days |-> 7,
                              use_multiple_sources |-> TRUE,
                              primary |-> <<>>, alternate |-> <<>>,
                              body |-> body, files_before |-> files,
                              at |-> now]
             /\ data_out' = [hist_prices |-> EmptyFrame,
                             missing_symbols |-> <<>>,
                             prices |-> live.prices, raised |-> live.raised,
                             log |-> live.calls]
    /\ UNCHANGED <<files, now>>
    /\ ncalls' = ncalls + 1

DataNext ==
    \/ EntriesAge
    \/ GetHistoricalPrices
    \/ LivePricesLookup

-----------------------------------------------------------------------------
(* compute_rolling_metrics (optimizer.py 214-244).  A rolling series is    *)
(* given by the rows of the log-return axis it holds a value for: the      *)
(* values themselves are floating-point numbers the model does not carry.  *)

window == 30
MaxRollRows == 33

\* A set of row numbers in ascending order.
RECURSIVE Ascending(_)
Ascending(S) ==
    IF S = {} THEN <<>>
    ELSE LET lo == CHOOSE x \in S : \A y \in S : x <= y
         IN <<lo>> \o Ascending(S \ {lo})

\* log_returns = np.log(prices_df / prices_df.shift(1)).dropna(): the matrix
\* rows that have a log return in every column, in order.
LogReturnAxis(m) == Ascending(ReturnRows(m))

\* The log return of column c at matrix row r is 0: the price did not move.
ZeroReturn(m, c, r) == m.values[c][r] = m.values[c][r - 1]

\* rolling(window): the axis positions of the window that ends at position i.
Window(i) == (i - window + 1)..i

\* rolling(window).std() and .mean() have a value from position window on.
RollingDefined(axis) == {i \in DOMAIN axis : i >= window}

\* (rolling_mean - risk_free_rate) / rolling_vol is NaN where it is 0 / 0:
\* the returns of the window are all 0 and the risk-free rate is 0.  A zero
\* volatility under a non-zero numerator gives an infinity, which dropna
\* keeps.
SharpeNaN(m, cols, axis, i, risk_free_rate) ==
    /\ risk_free_rate = 0
    /\ \A j \in Window(i) : \A c \in cols : ZeroReturn(m, c, axis[j])

RollingSeries(m, cols, axis, risk_free_rate) ==
    [volatility |-> Ascending(RollingDefined(axis)),
     sharpe |-> Ascending({i \in RollingDefined(axis) :
                              ~SharpeNaN(m, cols, axis, i, risk_free_rate)})]

EmptyMetrics ==
    [empty |-> TRUE, dates |-> <<>>, assets |-> <<>>,
     portfolio |-> [volatility |-> <<>>, sharpe |-> <<>>]]

\* compute_rolling_metrics(prices_df, risk_free_rate, window=30).  The
\* portfolio is the mean of the columns; dates is cut to the length of the
\* rolling portfolio series before dropna, that is, not at all.
compute_rolling_metrics(m, risk_free_rate) ==
    IF NanCells(m) = Cells(m) THEN EmptyMetrics
    ELSE
    LET axis == LogReturnAxis(m) IN
    [empty |-> FALSE,
     dates |-> [i \in DOMAIN axis |-> i],
     assets |-> [c \in DOMAIN m.columns |->
                    RollingSeries(m, {c}, axis, risk_free_rate)],
     portfolio |-> RollingSeries(m, DOMAIN m.columns, axis, risk_free_rate)]

\* The inputs: a column is flat for its first rows and moves on every row
\* after them.
PriceColumn(n, flat) ==
    [r \in 1..n |-> IF r <= flat \/ (r - flat) % 2 = 0 THEN 100 ELSE 110]
RollRows == (window - 1)..MaxRollRows
RollMatrices ==
    UNION {{[columns |-> <<"BTC">>, rows |-> n,
             values |-> <<PriceColumn(n, f)>>] : f \in 1..n}
           \cup {[columns |-> <<"BTC", "ETH">>, rows |-> n,
                  values |-> <<PriceColumn(n, f), PriceColumn(n, g)>>] :
                    f \in 1..n, g \in {1, n}}
           \cup {[columns |-> <<"BTC">>, rows |-> n,
                  values |-> <<[r \in 1..n |-> None]>>]} :
           n \in RollRows}
RiskFreeRates == {0, 200}

NoRollIn == [prices_df |-> EmptyFrame, risk_free_rate |-> 0, given |-> FALSE]

RollOff ==
    /\ roll_in = NoRollIn
    /\ roll_out = EmptyMetrics

RollInit ==
    /\ \E m \in RollMatrices, rf \in RiskFreeRates :
          roll_in = [prices_df |-> m, risk_free_rate |-> rf, given |-> TRUE]
    /\ roll_out = EmptyMetrics

ComputeRollingMetrics ==
    /\ UNCHANGED <<retryVars, cacheVars, frontierVars, liveVars, optVars,
                   dataVars, concVars, roll_in>>
    /\ roll_in.given
    /\ roll_out' = compute_rolling_metrics(roll_in.prices_df,
                                           roll_in.risk_free_rate)

RollNext == ComputeRollingMetrics

-----------------------------------------------------------------------------
(* Processes that call save_to_cache and load_from_cache on one key with   *)
(* no lock (data.py 72-97).  open(path, 'w') truncates the file; json.dump *)
(* writes through the file object's buffer, which is flushed to the file   *)
(* at the writer's own offset whenever it is full and when the file is     *)
(* closed.                                                                 *)

NumWriters == 2
ChunkCells == 4

Writers == 1..NumWriters
ConcKey == <<"bitcoin", 7>>
SeriesOne == <<<<4, 200>>>>
WriterSeries == {SeriesA, SeriesB, SeriesOne}

\* write(2) of chunk at offset pos: the file grows if it has to, and what
\* lies between its old end and pos is a hole.
WriteAt(f, pos, chunk) ==
    [i \in 1..Max(Len(f), pos + Len(chunk)) |->
        IF pos < i /\ i <= pos + Len(chunk) THEN chunk[i - pos]
        ELSE IF i <= Len(f) THEN f[i]
        ELSE Hole]

IdleWriter == [pc |-> "idle", doc |-> <<>>, pos |-> 0]

ConcOff ==
    /\ writers = <<>>
    /\ finished = <<>>
    /\ conc_read = Miss

ConcInit ==
    /\ writers = [w \in Writers |-> IdleWriter]
    /\ finished = <<>>
    /\ conc_read = Miss
    /\ now = 0
    /\ files = [k \in CacheKeys |-> NoFile]
    /\ lastSave = [k \in CacheKeys |-> NoSave]
    /\ loaded = NoLoad

ConcFrame ==
    UNCHANGED <<retryVars, frontierVars, liveVars, optVars, dataVars, rollVars,
                now, lastSave, loaded>>

\* with open(cache_path, 'w') as f: the file is created or truncated, and
\* the document to dump is built.
WriterOpen(w) ==
    /\ ConcFrame
    /\ writers[w].pc = "idle"
    /\ \E series \in WriterSeries :
          writers' = [writers EXCEPT ![w] =
                        [pc |-> "open",
                         doc |-> JsonDump(now, [prices |-> series]),
                         pos |-> 0]]
    /\ files' = [files EXCEPT ![ConcKey] = <<>>]
    /\ UNCHANGED <<finished, conc_read>>

\* The buffer is full: one chunk goes to the file.
WriterFlush(w) ==
    /\ ConcFrame
    /\ writers[w].pc = "open"
    /\ Len(writers[w].doc) - writers[w].pos > ChunkCells
    /\ files' = [files EXCEPT ![ConcKey] =
                    WriteAt(@, writers[w].pos,
                            SubSeq(writers[w].doc, writers[w].pos + 1,
                                   writers[w].pos + ChunkCells))]
    /\ writers' = [writers EXCEPT ![w].pos = @ + ChunkCells]
    /\ UNCHANGED <<finished, conc_read>>

\* The with block ends: the rest of the buffer goes to the file, and the
\* file is closed.
WriterClose(w) ==
    /\ ConcFrame
    /\ writers[w].pc = "open"
    /\ Len(writers[w].doc) - writers[w].pos <= ChunkCells
    /\ files' = [files EXCEPT ![ConcKey] =
                    WriteAt(@, writers[w].pos,
                            SubSeq(writers[w].doc, writers[w].pos + 1,
                                   Len(writers[w].doc)))]
    /\ writers' = [writers EXCEPT ![w].pc = "closed",
                                  ![w].pos = Len(writers[w].doc)]
    /\ finished' = Append(finished, w)
    /\ UNCHANGED conc_read

\* A reader calls load_from_cache on the key.
ReaderLoad ==
    /\ ConcFrame
    /\ writers # <<>>
    /\ conc_read' = load_from_cache(files, now, ConcKey[1], ConcKey[2])
    /\ UNCHANGED <<files, writers, finished>>

ConcNext ==
    \/ \E w \in Writers : WriterOpen(w)
    \/ \E w \in Writers : WriterFlush(w)
    \/ \E w \in Writers : WriterClose(w)
    \/ ReaderLoad

-----------------------------------------------------------------------------
(* Specifications.                                                         *)

RetryOff == RetryInit
CacheOff == CacheInit
FrontierOff == FrontierInit

\* Each specification runs one component from its initial states and holds
\* the others at rest.
InitRetry == RetryInit /\ CacheOff /\ FrontierOff /\ LiveOff /\ OptOff /\ DataOff /\ RollOff /\ ConcOff
SpecRetry == InitRetry /\ [][RetryNext]_vars

InitCache == CacheInit /\ RetryOff /\ FrontierOff /\ LiveOff /\ OptOff /\ DataOff /\ RollOff /\ ConcOff
SpecCache == InitCache /\ [][CacheNext]_vars

InitFrontier == FrontierInit /\ RetryOff /\ CacheOff /\ LiveOff /\ OptOff /\ DataOff /\ RollOff /\ ConcOff
SpecFrontier == InitFrontier /\ [][FrontierNext]_vars

InitLive == LiveInit /\ RetryOff /\ FrontierOff /\ OptOff /\ DataOff /\ RollOff /\ ConcOff
SpecLive == InitLive /\ [][LiveNext]_vars

InitOptimize == OptInit /\ RetryOff /\ FrontierOff /\ LiveOff /\ DataOff /\ RollOff /\ ConcOff
SpecOptimize == InitOptimize /\ [][OptNext]_vars

InitData == DataInit /\ RetryOff /\ FrontierOff /\ LiveOff /\ OptOff /\ RollOff /\ ConcOff
SpecData == InitData /\ [][DataNext]_vars

InitRolling ==
    RollInit /\ RetryOff /\ CacheOff /\ FrontierOff /\ LiveOff /\ OptOff /\ DataOff /\ ConcOff
SpecRolling == InitRolling /\ [][RollNext]_vars

InitConcurrent ==
    ConcInit /\ RetryOff /\ FrontierOff /\ LiveOff /\ OptOff /\ DataOff /\ RollOff
SpecConcurrent == InitConcurrent /\ [][ConcNext]_vars

-----------------------------------------------------------------------------
(* Claims.                                                                 *)

\* The optimizer has been called and has not gone past the asset count.
FewSymbols == Len(Symbols(opt_args.holdings)) < 2

\* C1: for every holdings map with fewer than 2 symbols, optimize_portfolio
\* returns the result whose weights, expected return, volatility and sharpe
\* ratio are null and whose note is the 'at least 2 assets' message, with no
\* cache read, no cache write and no provider call; the /api/optimize
\* handler answers such a request before calling get_live_prices.
C1_TooFewAssetsNullNoIo ==
    (opc # "idle" /\ FewSymbols) =>
        /\ io_log = <<>>
        /\ ran = {}
        /\ files \in {[k \in CacheKeys |-> NoFile],
                      [k \in CacheKeys |->
                          IF k = <<"bitcoin", 60>>
                            THEN JsonDump(0, [prices |-> SeriesLong])
                            ELSE NoFile]}
        /\ opc \in {"called", "done", "responded"}
        /\ (opc = "called" =>
               /\ ENABLED OptTooFewAssets
               /\ ~ENABLED (OptPreferencesFault \/ OptFetchHistory))
        /\ (opc = "done" =>
               /\ result.null
               /\ result.optimized_weights = EmptyMap
               /\ result.expected_return = None
               /\ result.volatility = None
               /\ result.sharpe_ratio = None
               /\ result.note.kind = AtLeast2Note)
        /\ (opc = "responded" =>
               /\ opt_args.via_handler
               /\ response.status = 400
               /\ response.weights_null)

C1_Witness ==
    /\ opc = "done"
    /\ Len(Symbols(opt_args.holdings)) = 1
    /\ PreferencesFault(opt_args.preferences)
    /\ result = NullResult(AtLeast2Note, <<>>)
    /\ io_log = <<>>

\* C2: optimize_portfolio never raises to its caller, whatever the holdings,
\* the risk method, the preferences (a mapping with a non-numeric max_weight
\* or min_weight included), the prices and the history are: every call ends
\* in a result.
C2_NeverRaises == opc # "raised"

\* The sum of the values of a weight map.
RECURSIVE SumMap(_)
SumMap(f) ==
    IF DOMAIN f = {} THEN 0
    ELSE LET k == CHOOSE x \in DOMAIN f : TRUE
         IN f[k] + SumMap([x \in DOMAIN f \ {k} |-> f[x]])

\* optimize_portfolio has returned weights that are not null.
HasWeights == opc \in {"done", "responded"} /\ ~result.null

\* C3: in every result with weights, the reported (rounded) weights sum to
\* at most 1 and every reported weight lies between 0 and the effective
\* max_weight, min(preferences max_weight or default, 0.8).
C3_SumAtMost1WithinMax ==
    HasWeights =>
        /\ SumMap(result.optimized_weights) <= FullWeight
        /\ \A k \in DOMAIN result.optimized_weights :
              /\ result.optimized_weights[k] >= 0
              /\ result.optimized_weights[k] <= max_weight(opt_args.preferences)

\* C4: in every result with weights, no reported weight is below the
\* effective min_weight, max(preferences min_weight or default, 0.01).
C4_NoWeightBelowMin ==
    HasWeights =>
        \A k \in DOMAIN result.optimized_weights :
            result.optimized_weights[k] >= min_weight(opt_args.preferences)

\* The requested symbols that are not in the provider symbol table.
UnknownRequested ==
    {s \in Range(Symbols(opt_args.holdings)) : s \notin DOMAIN symbol_to_id}

\* C5: a requested symbol that is not in the provider symbol table is left
\* out of the matrix get_historical_prices returns and is listed in the
\* missing symbols it returns; optimize_portfolio goes on only when at least
\* 2 columns remain, and returns the null 'not enough data' result otherwise.
C5_UnknownSymbolListedMissing ==
    "fetch" \in ran =>
        /\ \A s \in UnknownRequested :
              /\ s \notin Range(hist.hist_prices.columns)
              /\ s \in Range(hist.missing_symbols)
        /\ "validate" \in ran => Len(hist.hist_prices.columns) >= 2
        /\ (opc \in {"done", "responded"}
              /\ Len(hist.hist_prices.columns) < 2) =>
                 /\ result.null
                 /\ result.note.kind = NotEnoughNote

\* C10: with at least 2 columns and fewer rows than the validator's minimum
\* (is_valid false, 'Insufficient data points'), optimize_portfolio stops
\* there with a null result and a note, and runs neither the estimators nor
\* the solver.
C10_InsufficientPointsHalts ==
    ("validate" \in ran
        /\ Len(hist.hist_prices.columns) >= 2
        /\ InsufficientPoints(hist.hist_prices, opt_args.lookback_days)) =>
        /\ ~validation.is_valid
        /\ validation.data_issues = <<"Insufficient data points">>
        /\ "estimate" \notin ran
        /\ "solve" \notin ran
        /\ opc \in {"done", "responded"} => result.null

\* C11: the validator reports the minimum-points failure exactly when the
\* row count is below max(0.8 x lookback_days, 20): 30 rows are rejected for
\* lookback 60, 15 rows for lookback 10.
C11_RejectsBelowMaxOf80PctAnd20 ==
    "validate" \in ran =>
        ((~validation.is_valid
            /\ validation.data_issues = <<"Insufficient data points">>)
         <=> hist.hist_prices.rows * 10
                < Max(opt_args.lookback_days * 8, MinPointsCap * 10))

\* The last data-layer call was get_historical_prices; the symbols it
\* processed and the log it left.
HistCall == data_call.op = "history"
CallSymbols == valid_symbols(data_call.symbols)
CallLog == data_out.log

\* C12: every non-empty matrix get_historical_prices returns has no missing
\* cell and pairwise distinct column symbols, also for a repeated symbol and
\* for a fetched series with zero points.
C12_NoMissingCellDistinctColumns ==
    (HistCall /\ ~IsEmptyFrame(data_out.hist_prices)) =>
        /\ NanCells(data_out.hist_prices) = {}
        /\ \A i, j \in DOMAIN data_out.hist_prices.columns :
              i # j => data_out.hist_prices.columns[i]
                          # data_out.hist_prices.columns[j]

IsLoad(e) == e[1] = "load"
SameKey(e, f) == e[2] = f[2] /\ e[3] = f[3]

\* The cache read at position k of the log was a hit: the entry was valid
\* before the call, or the call saved it earlier.
HitAt(k) ==
    \/ load_from_cache(data_call.files_before, data_call.at,
                       CallLog[k][2], CallLog[k][3]).hit
    \/ \E j \in 1..(k - 1) :
          CallLog[j][1] = "save" /\ SameKey(CallLog[j], CallLog[k])

\* Cache, primary provider and alternate provider all failed for symbol s.
AllPathsFailed(s) ==
    /\ ~load_from_cache(data_call.files_before, data_call.at,
                        symbol_to_id[s], data_call.days).hit
    /\ ~data_call.primary[symbol_to_id[s]].ok
    /\ ~(data_call.use_multiple_sources
           /\ data_call.alternate[symbol_to_id[s]].ok)

\* C13: for each symbol get_historical_prices consults the cache, then the
\* primary provider, then the alternate provider: a valid cache hit causes
\* no provider call, the primary is asked only after a cache miss, the
\* alternate only after the primary returned no data, a symbol is listed as
\* missing exactly when all paths failed, and every symbol is processed
\* whatever happened to the ones before it.
C13_CacheThenPrimaryThenAlternate ==
    HistCall =>
        /\ SelectSeq(CallLog, IsLoad) =
              [i \in DOMAIN CallSymbols |->
                  IoEntry("load", symbol_to_id[CallSymbols[i]], data_call.days)]
        /\ \A k \in DOMAIN CallLog :
              /\ CallLog[k][1] = "coingecko" =>
                    /\ k > 1
                    /\ CallLog[k - 1][1] = "load"
                    /\ SameKey(CallLog[k - 1], CallLog[k])
                    /\ ~HitAt(k - 1)
              /\ CallLog[k][1] = "coinapi" =>
                    /\ k > 1
                    /\ CallLog[k - 1][1] = "coingecko"
                    /\ SameKey(CallLog[k - 1], CallLog[k])
                    /\ ~data_call.primary[CallLog[k][2]].ok
                    /\ data_call.use_multiple_sources
              /\ CallLog[k][1] = "save" =>
                    /\ k > 1
                    /\ CallLog[k - 1][1] \in {"coingecko", "coinapi"}
                    /\ SameKey(CallLog[k - 1], CallLog[k])
              /\ (CallLog[k][1] = "load" /\ HitAt(k)) =>
                    (k = Len(CallLog) \/ CallLog[k + 1][1] = "load")
        /\ Range(data_out.missing_symbols) =
              {s \in Range(CallSymbols) : AllPathsFailed(s)}

C13_Witness ==
    /\ HistCall
    /\ Len(CallSymbols) = 2
    /\ CallLog[1][1] = "load" /\ HitAt(1)
    /\ \E k \in DOMAIN CallLog : CallLog[k][1] = "coinapi"
    /\ data_out.missing_symbols = <<"ETH">>

\* The call fetched the series of key k from a provider: the key was asked
\* for, its cache entry was no valid hit, and a provider answered with data.
FetchedData(call, k) ==
    IF call.primary[k[1]].ok THEN call.primary[k[1]]
    ELSE IF call.use_multiple_sources THEN call.alternate[k[1]]
    ELSE NoHistory
SuccessfulFetch(call, k) ==
    /\ call.op = "history"
    /\ k[2] = call.days
    /\ k[1] \in RequestedCoins(call.symbols)
    /\ ~load_from_cache(call.files_before, call.at, k[1], k[2]).hit
    /\ FetchedData(call, k).ok

\* C14: a cache entry is created or refreshed only by a successful provider
\* fetch for its key, and every successful fetch persists one, stamped with
\* the time of the fetch; cache hits, expired reads, failed fetches and
\* live-price lookups leave every entry unchanged, and no entry is deleted.
C14_OnlyFetchesWriteTheCache ==
    [][\A k \in CacheKeys :
          /\ files'[k] # files[k] =>
                /\ ncalls' = ncalls + 1
                /\ SuccessfulFetch(data_call', k)
          /\ (ncalls' = ncalls + 1 /\ SuccessfulFetch(data_call', k)) =>
                files'[k] = JsonDump(now, [prices |->
                                             FetchedData(data_call', k).prices])
          /\ files[k] # NoFile => files'[k] # NoFile]_vars

C14_Witness ==
    /\ HistCall
    /\ \E k \in CacheKeys :
          /\ data_call.files_before[k] # NoFile
          /\ SuccessfulFetch(data_call, k)
          /\ files[k] # data_call.files_before[k]
          /\ files[k] = JsonDump(data_call.at,
                                 [prices |-> FetchedData(data_call, k).prices])

\* C15: when a price map is supplied and the discrete allocation runs (every
\* symbol of the cleaned weights has a price), the returned result carries
\* the allocation; when the allocation is skipped or fails, the result is
\* returned without it.
C15_ResultCarriesAllocation ==
    HasWeights =>
        /\ allocation.computed => "allocation" \in result.keys
        /\ ~allocation.computed => "allocation" \notin result.keys

\* A rolling series of the returned metrics.
RollingSeriesOut ==
    {roll_out.portfolio.volatility, roll_out.portfolio.sharpe}
    \cup {roll_out.assets[c].volatility : c \in DOMAIN roll_out.assets}
    \cup {roll_out.assets[c].sharpe : c \in DOMAIN roll_out.assets}

\* compute_rolling_metrics has returned, and the log-return axis is long
\* enough for a full window.
RolledFullWindow ==
    /\ ~roll_out.empty
    /\ Len(roll_out.dates) >= window

\* C16: with the 30-day window every rolling series (volatility and Sharpe,
\* per asset and portfolio) has no value for the first 29 rows of the
\* log-return axis, and its first output value is the one of row 30.
C16_FirstValueIsRow30 ==
    RolledFullWindow =>
        \A series \in RollingSeriesOut :
            /\ \A k \in DOMAIN series : series[k] >= window
            /\ series # <<>> => series[1] = window

\* Every writer has finished.
AllWritersFinished == Len(finished) = NumWriters

\* The series some writer that has opened the file is writing or has written.
WrittenSeries ==
    {JsonLoad(writers[w].doc).data.prices :
        w \in {v \in Writers : writers[v].pc # "idle"}}

\* C17: with unlocked writers and readers on one key the last writer wins:
\* once all writers have finished the file is exactly the record of the
\* writer that finished last, and a reader gets, at any point, a miss or the
\* complete series of one writer, never a mixture of two.
C17_LastWriterWins ==
    /\ AllWritersFinished =>
          files[ConcKey] = writers[Last(finished)].doc
    /\ conc_read.hit => conc_read.prices \in WrittenSeries

\* A call of get_live_prices with at least one known symbol has returned or
\* raised.
LiveKnown == valid_symbols(live_args.symbols)
LiveLookedUp == lpc = "done" /\ LiveKnown # <<>>

\* What each provider has to offer for the known symbols of the call.
LivePrimary == PricesFromCoingecko(LiveKnown, live_env.data)
LiveAlternate == PricesFromCoinapi(LiveKnown, live_env.rates)

\* The requests of the call that went to the given provider.
CallsTo(provider) ==
    {i \in DOMAIN live_out.calls : live_out.calls[i][1] = provider}

\* The provider outputs the call may end with: the primary one, or the
\* alternate one if the alternate provider was asked and its output validates.
ProviderOutputs ==
    {LivePrimary} \cup
    IF /\ CallsTo("coinapi") # {}
       /\ validate_live_prices(LiveAlternate, LiveKnown, files, now) = "valid"
    THEN {LiveAlternate} ELSE {}

\* The latest price of the 7-day cache entry of a symbol.
CachedLatest(s) == load_from_cache(files, now, symbol_to_id[s], DataDays)

\* C18: get_live_prices follows the fixed fallback order: the first request
\* is the one batched request to the primary provider; the alternate provider
\* is asked (one request per symbol, after the primary) only if the primary
\* output is invalid or incomplete, several sources are allowed and a
\* credential is configured; its output replaces the primary one only if it
\* validates; a cached 7-day price is only given to a symbol the provider
\* output lacks and never replaces a provider's price.
C18_FallbackOrder ==
    LiveLookedUp =>
        /\ CallsTo("coingecko") = {1}
        /\ live_out.calls[1] = <<"coingecko", "batch">>
        /\ CallsTo("coinapi") # {} =>
              /\ validate_live_prices(LivePrimary, LiveKnown, files, now) # "valid"
              /\ live_args.use_multiple_sources
              /\ coinapi_key
              /\ SubSeq(live_out.calls, 2, Len(live_out.calls)) =
                    [i \in DOMAIN LiveKnown |->
                        <<"coinapi", symbol_to_id[LiveKnown[i]]>>]
        /\ ~live_out.raised =>
              \E out \in ProviderOutputs :
                 /\ \A s \in DOMAIN out :
                       s \in DOMAIN live_out.prices /\ live_out.prices[s] = out[s]
                 /\ \A s \in DOMAIN live_out.prices \ DOMAIN out :
                       /\ HasCachedPrices(CachedLatest(s))
                       /\ live_out.prices[s] = LatestCached(CachedLatest(s))

\* A call that went through every step: the primary output lacks a symbol,
\* the alternate provider was asked and its output did not validate, one
\* symbol got its price from the cache, and another kept the provider's price
\* although the cache holds a different one.
C18_Witness ==
    /\ LiveLookedUp
    /\ ~live_out.raised
    /\ CallsTo("coinapi") # {}
    /\ validate_live_prices(LiveAlternate, LiveKnown, files, now) # "valid"
    /\ \E s \in DOMAIN live_out.prices : s \notin DOMAIN LivePrimary
    /\ \E s \in DOMAIN LivePrimary :
          /\ HasCachedPrices(CachedLatest(s))
          /\ LatestCached(CachedLatest(s)) # LivePrimary[s]

Rate429x3 == <<"429", "429", "429">>

\* C6: when the provider answers 429 to three consecutive requests,
\* api_call_with_retry has made exactly 3 attempts, has slept 0.5s, 1s and
\* 2s (each wait double the one before, starting at the base), makes no
\* further attempt, and returns None.
C6_ThreeRateLimitsGiveUp ==
    (Len(responses) >= 3 /\ SubSeq(responses, 1, 3) = Rate429x3) =>
        /\ Len(responses) = 3
        /\ attempt = 3
        /\ waits[1] = BackoffFactorMs
        /\ Len(waits) = 3
        /\ \A i \in 1..(Len(waits) - 1) : waits[i + 1] = 2 * waits[i]
        /\ ~ENABLED (AttemptOk \/ Attempt429 \/ AttemptException)
        /\ retval = None

C6_Witness ==
    /\ rpc = "done"
    /\ responses = Rate429x3
    /\ waits = <<500, 1000, 2000>>
    /\ retval = None

\* C7 as stated: a load returns exactly the series last saved under its key
\* if and only if the entry is less than 24h old.
C7_HitIffYoungerThan24h ==
    loaded.age # None =>
        ((loaded.hit /\ loaded.prices = loaded.saved)
            <=> loaded.age < max_age_hours)

\* C7, amended: a load returns exactly the series last saved under its key
\* if and only if the entry is at most 24h old; an older entry is a miss.
C7_HitIffAtMost24h ==
    loaded.age # None =>
        /\ (loaded.hit /\ loaded.prices = loaded.saved)
              <=> loaded.age <= max_age_hours
        /\ loaded.age > max_age_hours => (~loaded.hit /\ loaded.prices = <<>>)

C7_Witness ==
    /\ loaded.age = max_age_hours
    /\ loaded.hit
    /\ loaded.prices = SeriesA
    /\ loaded.saved = SeriesA
\* C8: the list generate_efficient_frontier_data returns has at least 3
\* points and its volatilities are in non-decreasing order, whichever of the
\* anchor solves and of the 15 target solves succeed.
C8_FrontierAscendingAtLeast3 ==
    fpc = "done" =>
        /\ Len(frontier) >= MinFrontierPoints
        /\ \A i \in 1..(Len(frontier) - 1) :
              frontier[i].volatility <= frontier[i + 1].volatility

\* The part of C8 the code keeps: never fewer than 3 points.
C8_AtLeast3 == fpc = "done" => Len(frontier) >= MinFrontierPoints
\* C19: when fewer than 3 of the per-target solves succeed (0, 1 or 2 points)
\* generate_efficient_frontier_data discards every solved point and returns
\* exactly the 5 fallback points.
C19_FewSolvedGivesFallbackOnly ==
    (fpc = "done" /\ Len(frontier_points) < MinFrontierPoints) =>
        frontier = fallback_points

\* C20: whatever the outcomes of the attempts (success, 429, another HTTP
\* error, a timeout or connection failure), api_call_with_retry makes at most
\* 3 attempts and then stops; the first attempt that succeeds ends the call,
\* which returns its payload; the call returns None when no attempt succeeds;
\* and the wait after attempt k (from 0) is 0.5s * 2^k.
C20_BoundedRetriesWithBackoff ==
    /\ Len(responses) <= max_retries
    /\ (Len(responses) = max_retries \/ rpc = "done") =>
          ~ENABLED (AttemptOk \/ Attempt429 \/ AttemptException)
    /\ \A i \in DOMAIN responses :
          responses[i] = "ok" =>
             /\ i = Len(responses)
             /\ rpc = "done"
             /\ retval \in Payloads
    /\ rpc = "done" =>
          (retval = None <=> \A i \in DOMAIN responses : responses[i] # "ok")
    /\ Len(waits) <= Len(responses)
    /\ \A j \in DOMAIN waits :
          /\ responses[j] # "ok"
          /\ waits[j] = BackoffFactorMs * (2 ^ (j - 1))

\* A call whose attempts are a 429, a timeout and then a success: two waits,
\* 0.5s and 1s, and the payload of the third attempt is returned.
C20_Witness ==
    /\ rpc = "done"
    /\ responses = <<"429", "timeout", "ok">>
    /\ waits = <<500, 1000>>
    /\ retval \in Payloads

\* C21: when no alternate-provider credential is configured the alternate
\* provider is disabled: no call of get_live_prices or get_historical_prices
\* sends it a request, whatever the primary provider answers.
C21_NoCredentialNoAlternateRequest ==
    ~coinapi_key =>
        \A i \in DOMAIN data_out.log : data_out.log[i][1] # "coinapi"

\* C9: get_live_prices never raises, and the map it returns has only
\* requested symbols of the provider table as keys.
C9_LivePricesNeverRaise ==
    lpc = "done" =>
        /\ ~live_out.raised
        /\ DOMAIN live_out.prices \subseteq
              (Range(live_args.symbols) \cap KnownSymbols)

\* The part of C9 the code keeps: a returned map has only requested symbols
\* of the provider table as keys.
C9_KeysAreRequestedKnown ==
    (lpc = "done" /\ ~live_out.raised) =>
        DOMAIN live_out.prices \subseteq
            (Range(live_args.symbols) \cap KnownSymbols)

====
